---- MODULE Spec2Model ----
(***************************************************************************)
(* HEP to InfluxDB server (HepToInfluxDBServer): ingestion over UDP and    *)
(* TCP, the shared line buffer, size- and time-triggered flushes to the    *)
(* sink, and the shutdown sequence.                                        *)
(*                                                                         *)
(* One action is one run-to-completion turn of the JavaScript event loop:  *)
(* a socket data callback, a timer callback, a signal handler up to its    *)
(* first pending await, or the completion of a sink call together with     *)
(* every continuation it resumes.                                          *)
(***************************************************************************)
EXTENDS Integers, Sequences, FiniteSets, TLC

\* ---------------------------------------------------------------- bounds
ClockStart == 7       \* Date.now() when a converter scenario starts
MaxSeconds == 1       \* largest timeSeconds of a decoded header
MaxClockReads == 2    \* clock ticks observed during one converter scenario
MaxFields == 3        \* fields of a field set given to the serializer
MaxPackets == 3       \* packets delivered to handleData in one run
MaxTime == 4          \* last value of the discrete millisecond clock
MaxSignals == 2       \* termination signals delivered in one run
MaxBatchSize == 3     \* largest configured batchSize
FlushIntervalMs == 2  \* the configured flushInterval, in clock ticks
BufferCap == 1        \* the configured maxBufferSize

VARIABLES
  config,          \* this.config (the options the batching engine reads)
  buffer,          \* this.buffer
  lastFlushTime,   \* this.lastFlushTime
  stats,           \* this.stats
  udpServer,       \* this.udpServer is bound and delivering datagrams
  tcpServer,       \* this.tcpServer is bound and delivering chunks
  flushIntervalId, \* the setInterval timer is armed
  nextFire,        \* clock value at which the interval timer fires next
  handlers,        \* SIGTERM/SIGINT handlers are registered
  now,             \* Date.now()
  flushes,         \* every flush() call that detached a batch, in order
  shutdowns,       \* shutdown() calls suspended at `await this.flush()`
  bufferedAt,      \* bufferedAt[k] = clock value when buffer[k] was pushed
  finalStats,      \* what `Final statistics:` printed, <<>> before that
  exited,          \* process.exit was called
  conv             \* one HepToLineProtocolConverter call: inputs and results

vars == <<config, buffer, lastFlushTime, stats, udpServer, tcpServer,
          flushIntervalId, nextFire, handlers, now, flushes, shutdowns,
          bufferedAt, finalStats, exited, conv>>

\* ----------------------------------------------------------- input sets
Transports == {"udp", "tcp"}
\* what convertPacket does with a packet: returns a line, throws while
\* decoding, or returns '' because createLineProtocol caught an error
PacketKinds == {"hep", "garbage", "anomaly"}
Signals == {"SIGTERM", "SIGINT"}
EmptyLine == 0

Configs ==
  [batchSize : 1..MaxBatchSize,
   flushInterval : {FlushIntervalMs},
   maxBufferSize : {BufferCap},
   writeToFile : BOOLEAN]

ZeroStats ==
  [packetsReceived |-> 0, packetsConverted |-> 0, batchesSent |-> 0,
   conversionErrors |-> 0, sendErrors |-> 0]

\* ------------------------------------------------- converter: characters
\* Text is a sequence of one-character strings; keys and literals of the
\* line protocol are single tokens (none contains a character that the
\* escaping rules touch).
CR == "\r"
LF == "\n"
BS == "\\"
DQ == "\""
SP == " "
COMMA == ","
EQ == "="
EscapedNewline == <<BS, "r", BS, "n">>
DigitChars == <<"0", "1", "2", "3", "4", "5", "6", "7", "8", "9">>

\* String(n) for a non-negative integer
RECURSIVE NatChars(_)
NatChars(n) ==
  IF n < 10 THEN <<DigitChars[n + 1]>>
  ELSE NatChars(n \div 10) \o <<DigitChars[(n % 10) + 1]>>

DigitValue(c) == CHOOSE d \in 0..9 : DigitChars[d + 1] = c
IsDigit(c) == \E d \in 0..9 : DigitChars[d + 1] = c

\* parseInt(text, 10) on text that starts with a digit: the leading digits
RECURSIVE ParseIntFrom(_, _)
ParseIntFrom(text, acc) ==
  IF text = <<>> \/ ~IsDigit(Head(text)) THEN acc
  ELSE ParseIntFrom(Tail(text), acc * 10 + DigitValue(Head(text)))
ParseInt(text) == ParseIntFrom(text, 0)

\* value.replace(/\r\n|\n|\r/g, '\\r\\n'): each CRLF, lone LF or lone CR
\* becomes the four characters backslash r backslash n
RECURSIVE ReplaceNewlines(_)
ReplaceNewlines(text) ==
  IF text = <<>> THEN <<>>
  ELSE IF Len(text) >= 2 /\ text[1] = CR /\ text[2] = LF
    THEN EscapedNewline \o ReplaceNewlines(SubSeq(text, 3, Len(text)))
  ELSE IF text[1] \in {CR, LF}
    THEN EscapedNewline \o ReplaceNewlines(Tail(text))
  ELSE <<text[1]>> \o ReplaceNewlines(Tail(text))

\* value.replace(/[...]/g, '\\$&'): a backslash before each listed character
RECURSIVE BackslashBefore(_, _)
BackslashBefore(text, special) ==
  IF text = <<>> THEN <<>>
  ELSE (IF Head(text) \in special THEN <<BS, Head(text)>> ELSE <<Head(text)>>)
       \o BackslashBefore(Tail(text), special)

\* a header or field value: absent, a number or a string
Absent == [kind |-> "none", num |-> 0, chars |-> <<>>]
Num(n) == [kind |-> "num", num |-> n, chars |-> <<>>]
Str(text) == [kind |-> "str", num |-> 0, chars |-> text]
\* a number that is not an integer and a boolean, each with the text
\* that String(value) gives
Float(text) == [kind |-> "float", num |-> 0, chars |-> text]
Bool(b) ==
  [kind |-> "bool", num |-> 0,
   chars |-> IF b THEN <<"t", "r", "u", "e">> ELSE <<"f", "a", "l", "s", "e">>]
\* JavaScript truthiness: undefined, 0 and '' are falsy
Truthy(v) ==
  \/ v.kind = "num" /\ v.num # 0
  \/ v.kind = "str" /\ v.chars # <<>>
\* String(value)
ToChars(v) == IF v.kind = "num" THEN NatChars(v.num) ELSE v.chars

\* escapeTagValue
EscapeTagValue(v) ==
  IF v.kind = "none" THEN <<>>
  ELSE BackslashBefore(ToChars(v), {SP, COMMA, EQ})

\* escapeFieldValue
EscapeFieldValue(text) == BackslashBefore(ReplaceNewlines(text), {DQ, BS})

\* --------------------------------------------------- converter: inputs
\* rcinfo as hepjs.decapsulate returns it: the tag sources are absent, a
\* number or a string; the time and the payload type are numbers
TagSources ==
  <<[key |-> "capture_id", field |-> "captureId"],
    [key |-> "capture_pass", field |-> "capturePass"],
    [key |-> "src_ip", field |-> "srcIp"],
    [key |-> "dst_ip", field |-> "dstIp"],
    [key |-> "src_port", field |-> "srcPort"],
    [key |-> "dst_port", field |-> "dstPort"],
    [key |-> "ip_protocol_id", field |-> "ipProtocolId"],
    [key |-> "ip_protocol_family", field |-> "ipProtocolFamily"],
    [key |-> "protocol_type", field |-> "protocolType"],
    [key |-> "vlan", field |-> "vlan"],
    [key |-> "vendor_module", field |-> "vendor_module"]>>

NoTagSources ==
  [captureId |-> Absent, capturePass |-> Absent, srcIp |-> Absent,
   dstIp |-> Absent, srcPort |-> Absent, dstPort |-> Absent,
   ipProtocolId |-> Absent, ipProtocolFamily |-> Absent,
   protocolType |-> Absent, vlan |-> Absent, vendor_module |-> Absent]

\* present but zero or empty
ZeroTagSources ==
  [NoTagSources EXCEPT !.captureId = Num(0), !.srcPort = Num(0),
                       !.capturePass = Str(<<>>), !.vlan = Num(0)]

\* the packet of example.js
ExampleTagSources ==
  [NoTagSources EXCEPT !.captureId = Num(2001),
                       !.capturePass = Str(<<"m", "y">>),
                       !.srcIp = Str(<<"1", ".", "1">>),
                       !.dstIp = Str(<<"1", ".", "2">>),
                       !.srcPort = Num(5060), !.dstPort = Num(5060),
                       !.protocolType = Num(1)]

\* values that need escaping
OddTagSources ==
  [NoTagSources EXCEPT !.capturePass = Str(<<"a", SP, "b", LF>>),
                       !.ipProtocolId = Num(17), !.ipProtocolFamily = Num(2),
                       !.vlan = Num(7),
                       !.vendor_module = Str(<<"m", COMMA, "x", EQ>>)]

TagSourceSets ==
  {NoTagSources, ZeroTagSources, ExampleTagSources, OddTagSources}

USeconds == {0, 999, 1500, 999999}
PayloadTypes == {0, 1, 5}

Headers ==
  [tagSources : TagSourceSets,
   timeSeconds : 0..MaxSeconds,
   timeUseconds : USeconds,
   payloadType : PayloadTypes]

Payloads ==
  {<<>>,
   <<"a", CR, LF, "b">>,
   <<"I", SP, "x", LF, "y", CR>>,
   <<"q", DQ, BS, "z">>}

\* what getSIP (package parsip) returns for the payload: null, an
\* exception, or a message with a method or a status and its headers
NoSip == [result |-> "null", method |-> <<>>, status |-> <<>>, headers |-> <<>>]
SipThrows == [NoSip EXCEPT !.result = "throws"]
SipRequest ==
  [result |-> "message",
   method |-> <<"I", "N", "V">>,
   status |-> <<>>,
   headers |-> <<[name |-> "Call-ID", value |-> <<"c", "@", "e">>],
                 [name |-> "From", value |-> <<"B", SP, "<", "b", ">">>]>>]
SipResponse ==
  [result |-> "message",
   method |-> <<>>,
   status |-> <<"2", "0", "0">>,
   headers |-> <<[name |-> "call-id", value |-> <<"c", LF, "d">>],
                 [name |-> "User-Agent", value |-> <<"u", DQ>>]>>]
SipResults == {NoSip, SipThrows, SipRequest, SipResponse}

\* key.toLowerCase() on the header names above, prefixed with sip_
SipFieldKey(name) ==
  CASE name = "Call-ID" -> "sip_call-id"
    [] name = "call-id" -> "sip_call-id"
    [] name = "From" -> "sip_from"
    [] name = "User-Agent" -> "sip_user-agent"

\* ------------------------------------------------ converter: functions
\* getHepTimestamp(rcinfo).getTime(): the clock when timeSeconds is falsy,
\* else S*1000 + ((100000+U)/1000 - 100) cut to an integer by Date; the sum
\* is computed here in thousandths of a millisecond
GetHepTimestamp(rcinfo, clock) ==
  IF rcinfo.timeSeconds = 0 THEN clock
  ELSE ((rcinfo.timeSeconds * 1000) * 1000
        + ((100000 + rcinfo.timeUseconds) - 100 * 1000)) \div 1000

\* extractTags: the truthy tag sources, in the order of the code
RECURSIVE TagsFrom(_, _)
TagsFrom(sources, k) ==
  IF k > Len(TagSources) THEN <<>>
  ELSE LET v == sources[TagSources[k].field]
           value == IF TagSources[k].key = "vlan" THEN Str(ToChars(v)) ELSE v
       IN (IF Truthy(v) THEN <<[key |-> TagSources[k].key, value |-> value]>>
                        ELSE <<>>)
          \o TagsFrom(sources, k + 1)
ExtractTags(header) == TagsFrom(header.tagSources, 1)

\* fields[key] = value on an object that keeps insertion order
SetField(fields, key, value) ==
  IF \E k \in 1..Len(fields) : fields[k].key = key
    THEN [k \in 1..Len(fields) |->
            IF fields[k].key = key THEN [key |-> key, value |-> value]
                                   ELSE fields[k]]
    ELSE Append(fields, [key |-> key, value |-> value])

\* extractFields lines 175-185: one sip_<name> field per header
RECURSIVE SipHeaderFields(_, _, _)
SipHeaderFields(fields, headers, k) ==
  IF k > Len(headers) THEN fields
  ELSE SipHeaderFields(
         SetField(fields, SipFieldKey(headers[k].name),
                  Str(ReplaceNewlines(headers[k].value))),
         headers, k + 1)

CallIdHeaders(headers) ==
  {k \in 1..Len(headers) : headers[k].name = "Call-ID"}

\* extractFields lines 169-209
IsSipTypeLoose(type) == type >= 1
IsSipType(type) == type = 1
SipFields(fields, payload, type, sip) ==
  IF ~(IsSipType(type) /\ payload # <<>>) \/ sip.result # "message"
    THEN fields
    ELSE LET f1 == SipHeaderFields(fields, sip.headers, 1)
             f2 == IF sip.method # <<>>
                     THEN SetField(f1, "sip_method", Str(sip.method)) ELSE f1
             f3 == IF sip.status # <<>>
                     THEN SetField(f2, "sip_status", Num(ParseInt(sip.status)))
                     ELSE f2
             ids == CallIdHeaders(sip.headers)
         IN IF ids = {} THEN f3
            ELSE LET k == CHOOSE i \in ids : \A j \in ids : i <= j
                 IN SetField(f3, "call_id",
                             Str(ReplaceNewlines(sip.headers[k].value)))

\* extractFields
ExtractFields(header, payload, type, sip, clock) ==
  LET f0 == <<[key |-> "create_date",
               value |-> Num(GetHepTimestamp(header, clock))]>>
      f1 == SipFields(f0, payload, type, sip)
      f2 == IF payload # <<>>
              THEN SetField(SetField(f1, "payload", Str(ReplaceNewlines(payload))),
                            "payload_size", Num(Len(payload)))
              ELSE f1
  IN IF header.timeSeconds # 0
       THEN SetField(SetField(f2, "time_sec", Num(header.timeSeconds)),
                     "time_usec", Num(header.timeUseconds))
       ELSE f2

\* createLineProtocol lines 92-95: the default tag
DefaultTag == [key |-> "source", value |-> Str(<<"h", "e", "p">>)]
LineTagsNoDefault(header) == ExtractTags(header)
LineTags(header) ==
  IF Len(ExtractTags(header)) = 0 THEN <<DefaultTag>> ELSE ExtractTags(header)

\* createLineProtocol lines 97-119: key=value items joined with commas
RenderTag(tag) == <<tag.key, EQ>> \o EscapeTagValue(tag.value)
\* the callback of fields.map: NoItem stands for the null it returns
NoItem == <<>>
RenderFieldAlwaysSuffixed(field) ==
  CASE field.value.kind = "str" ->
         <<field.key, EQ, DQ>> \o EscapeFieldValue(field.value.chars) \o <<DQ>>
    [] field.value.kind = "num" ->
         <<field.key, EQ>> \o NatChars(field.value.num) \o <<"i">>
    [] field.value.kind = "float" ->
         <<field.key, EQ>> \o field.value.chars \o <<"i">>
    [] field.value.kind = "bool" -> <<field.key, EQ>> \o field.value.chars
    [] field.value.kind = "none" -> NoItem
    [] field.value.kind = "object" ->
         <<field.key, EQ, DQ>> \o EscapeFieldValue(field.value.chars) \o <<DQ>>
RenderField(field) ==
  CASE field.value.kind = "str" ->
         <<field.key, EQ, DQ>> \o EscapeFieldValue(field.value.chars) \o <<DQ>>
    [] field.value.kind = "num" ->
         <<field.key, EQ>> \o NatChars(field.value.num) \o <<"i">>
    [] field.value.kind = "float" -> <<field.key, EQ>> \o field.value.chars
    [] field.value.kind = "bool" -> <<field.key, EQ>> \o field.value.chars
    [] field.value.kind = "none" -> NoItem
    [] field.value.kind = "object" ->
         <<field.key, EQ, DQ>> \o EscapeFieldValue(field.value.chars) \o <<DQ>>

RECURSIVE JoinTags(_, _)
JoinTags(tags, k) ==
  IF k > Len(tags) THEN <<>>
  ELSE (IF k > 1 THEN <<COMMA>> ELSE <<>>) \o RenderTag(tags[k])
       \o JoinTags(tags, k + 1)
\* .map(...).filter(Boolean).join(','): the items that are not null,
\* in the order of Object.entries, with a comma between two of them
RenderedFields(fields) == [k \in 1..Len(fields) |-> RenderField(fields[k])]
FilterBoolean(items) == SelectSeq(items, LAMBDA item : item # NoItem)
RECURSIVE JoinItems(_, _)
JoinItems(items, k) ==
  IF k > Len(items) THEN <<>>
  ELSE (IF k > 1 THEN <<COMMA>> ELSE <<>>) \o items[k] \o JoinItems(items, k + 1)
JoinFields(fields, k) ==
  JoinItems(FilterBoolean(RenderedFields(SubSeq(fields, k, Len(fields)))), 1)

\* createLineProtocol: [line, tags, fields, timestamp]; the line is empty
\* when an error is caught, which happens when raw is not a string
\* (payload.replace is then not a function)
NoLine == [line |-> <<>>, tags |-> <<>>, fields |-> <<>>, timestamp |-> <<>>]
\* String(ms * 1000000): the digits of ms followed by six zeros (the
\* product is exact for the milliseconds of the model, which stay below
\* 2^53 / 10^6)
TimesMillion(ms) ==
  IF ms = 0 THEN <<"0">>
  ELSE NatChars(ms) \o <<"0", "0", "0", "0", "0", "0">>
CreateLineProtocol(hepData, sip, clock) ==
  IF hepData.raw # <<>> /\ ~hepData.rawIsString THEN NoLine
  ELSE LET tags == LineTags(hepData.protocol_header)
           fields == ExtractFields(hepData.protocol_header, hepData.raw,
                                   hepData.type, sip, clock)
           timestamp == TimesMillion(hepData.create_date)
       IN [line |-> <<"hep_">> \o NatChars(hepData.type) \o <<COMMA>>
                    \o JoinTags(tags, 1) \o <<SP>> \o JoinFields(fields, 1)
                    \o <<SP>> \o timestamp,
           tags |-> tags,
           fields |-> fields,
           timestamp |-> timestamp]

\* convertPacket lines 35-41 on what decapsulate returned; the clock is
\* read when hepData is built
HepData(header, raw, rawIsString, clock) ==
  [protocol_header |-> header,
   create_date |-> GetHepTimestamp(header, clock),
   raw |-> raw,
   rawIsString |-> rawIsString,
   type |-> header.payloadType]

\* String.prototype.trim on the characters used here
Whitespace == {SP, CR, LF}
RECURSIVE TrimStart(_)
TrimStart(text) ==
  IF text # <<>> /\ Head(text) \in Whitespace THEN TrimStart(Tail(text))
  ELSE text
RECURSIVE TrimEnd(_)
TrimEnd(text) ==
  IF text # <<>> /\ text[Len(text)] \in Whitespace
    THEN TrimEnd(SubSeq(text, 1, Len(text) - 1))
  ELSE text
Trim(text) == TrimEnd(TrimStart(text))

RemoveChars(text, unwanted) == SelectSeq(text, LAMBDA c : c \notin unwanted)
StartsWith(text, prefix) ==
  Len(text) >= Len(prefix) /\ SubSeq(text, 1, Len(prefix)) = prefix
\* index of the first c in text, 0 when there is none
FirstIndexOf(text, c) ==
  IF \E k \in 1..Len(text) : text[k] = c
    THEN CHOOSE k \in 1..Len(text) :
           text[k] = c /\ \A j \in 1..(k - 1) : text[j] # c
    ELSE 0

SipScheme == <<"s", "i", "p", ":">>

\* extractUserFromUri as listed in the README: strip '<' and '>', then
\* match /^sip:([^@]+)@/ and return the group, else the cleaned value
ExtractUserFromUri(uri) ==
  LET cleanUri == RemoveChars(uri, {"<", ">"})
      at == FirstIndexOf(cleanUri, "@")
  IN IF StartsWith(cleanUri, SipScheme) /\ at > Len(SipScheme) + 1
       THEN SubSeq(cleanUri, Len(SipScheme) + 1, at - 1)
       ELSE cleanUri

\* the <name>_user field of the README's extractFields for a From or To
\* header whose raw value is given
UserField(raw) == ExtractUserFromUri(Trim(raw))

Uris ==
  {<<"s", "i", "p", ":", "b", "@", "e">>,
   <<"<", "s", "i", "p", ":", "b", "@", "e", ">">>,
   <<"B", SP, "<", "s", "i", "p", ":", "b", "@", "e", ">", ";", "t">>,
   <<"b">>,
   <<"<", "s", "i", "p", ":", "e", ">">>}

\* the constructor of the README's converter: this.sipHeaders
DefaultSipHeaders == <<"Call-ID", "From", "To", "CSeq", "User-Agent">>

\* String.prototype.toLowerCase on the header names used here
ToLowerCase(name) ==
  CASE name \in {"Call-ID", "CALL-ID", "call-id"} -> "call-id"
    [] name \in {"From", "FROM", "from"} -> "from"
    [] name \in {"To", "TO", "to"} -> "to"
    [] name \in {"CSeq", "CSEQ", "cseq"} -> "cseq"
    [] name \in {"User-Agent", "USER-AGENT", "user-agent"} -> "user-agent"

\* setSipHeaders(headers): the list is stored in lower case
SetSipHeaders(headers) == [k \in 1..Len(headers) |-> ToLowerCase(headers[k])]

\* the header lists a converter can hold: the constructor's, or the one
\* stored by setSipHeaders for each way of writing the same names
SipHeaderLists ==
  {DefaultSipHeaders,
   SetSipHeaders(<<"Call-ID", "From">>),
   SetSipHeaders(<<"CALL-ID", "FROM">>),
   SetSipHeaders(<<"call-id", "from">>)}

\* sipData.headers of one message, keyed as the parser wrote the names:
\* each value is an object with a raw string
SipMessages ==
  {<<[name |-> "Call-ID", raw |-> <<"c", "@", "e">>],
     [name |-> "From", raw |-> <<SP, "s", "i", "p", ":", "b", "@", "e">>]>>,
   <<[name |-> "call-id", raw |-> <<"c", "@", "e">>],
     [name |-> "from", raw |-> <<SP, "s", "i", "p", ":", "b", "@", "e">>]>>,
   <<[name |-> "CALL-ID", raw |-> <<"c", "@", "e">>],
     [name |-> "User-Agent", raw |-> <<"u">>]>>}

\* `sip_${headerName.toLowerCase()}` and `${headerName.toLowerCase()}_user`
SipKey(name) ==
  CASE ToLowerCase(name) = "call-id" -> "sip_call-id"
    [] ToLowerCase(name) = "from" -> "sip_from"
    [] ToLowerCase(name) = "to" -> "sip_to"
    [] ToLowerCase(name) = "cseq" -> "sip_cseq"
    [] ToLowerCase(name) = "user-agent" -> "sip_user-agent"
UserKey(name) == IF ToLowerCase(name) = "from" THEN "from_user" ELSE "to_user"

\* sipData.headers[headerName]: a property lookup by the exact name
HeaderNamed(headers, headerName) ==
  {k \in 1..Len(headers) : headers[k].name = headerName}

\* the loop `for (const headerName of this.sipHeaders)` of the README's
\* extractFields, from the k-th configured name on
RECURSIVE ConfiguredHeaderFields(_, _, _, _)
ConfiguredHeaderFields(fields, sipHeaders, headers, k) ==
  IF k > Len(sipHeaders) THEN fields
  ELSE LET headerName == sipHeaders[k]
           found == HeaderNamed(headers, headerName)
       IN IF found = {}
            THEN ConfiguredHeaderFields(fields, sipHeaders, headers, k + 1)
            ELSE LET rawValue == Trim(headers[CHOOSE i \in found : TRUE].raw)
                     f1 == IF ToLowerCase(headerName) \in {"from", "to"}
                             THEN SetField(fields, UserKey(headerName),
                                           Str(ExtractUserFromUri(rawValue)))
                             ELSE fields
                     f2 == SetField(f1, SipKey(headerName), Str(rawValue))
                 IN ConfiguredHeaderFields(f2, sipHeaders, headers, k + 1)

\* field sets as extractFields can hand them to the serializer: distinct
\* keys in any insertion order, each with a value of any kind (a header
\* value of the SIP parser is stored as it comes)
SerializedKeys == {"sip_call-id", "sip_from", "sip_to", "sip_cseq"}
FieldValues ==
  {Str(<<"a", DQ>>), Num(42), Float(<<"1", ".", "5">>), Bool(TRUE), Bool(FALSE),
   Absent}
\* the keys of a field set of n fields, in insertion order
KeyOrders(n) ==
  {keys \in [1..n -> SerializedKeys] :
     \A i, j \in 1..n : i # j => keys[i] # keys[j]}
FieldSet(keys, values) ==
  [k \in 1..Len(keys) |-> [key |-> keys[k], value |-> values[k]]]

\* ----------------------------------------------------- converter: state
\* a decoded payload is a string, or (one case) some other truthy object
RawInputs ==
  [raw : Payloads, isString : {TRUE}] \cup {[raw |-> <<"a">>, isString |-> FALSE]}

ConvIdle ==
  [step |-> "idle",
   clock |-> ClockStart,
   hepData |-> <<>>,
   sip |-> NoSip,
   out |-> NoLine,
   again |-> NoLine,
   uri |-> <<>>,
   user |-> <<>>,
   sipHeaders |-> <<>>,
   message |-> <<>>,
   headerFields |-> <<>>,
   fieldSet |-> <<>>,
   fieldString |-> <<>>]

Init ==
  /\ conv = ConvIdle
  /\ config \in Configs
  /\ buffer = <<>>
  /\ lastFlushTime = 0
  /\ stats = ZeroStats
  /\ udpServer = FALSE
  /\ tcpServer = FALSE
  /\ flushIntervalId = FALSE
  /\ nextFire = 0
  /\ handlers = FALSE
  /\ now = 0
  /\ flushes = <<>>
  /\ shutdowns = <<>>
  /\ bufferedAt = <<>>
  /\ finalStats = <<>>
  /\ exited = FALSE

\* ------------------------------------------------------------- helpers
\* convertPacket: the line for packet number n, EmptyLine for '', and
\* threw = TRUE when hepjs.decapsulate (or the header access) throws
ConvertPacket(kind, n) ==
  [threw |-> kind = "garbage",
   line |-> IF kind = "hep" THEN n ELSE EmptyLine]

\* handleData line 130
SizeReachedStrict(len, batchSize) == len > batchSize
SizeReached(len, batchSize) == len >= batchSize

\* conditionalFlush lines 146-150
IntervalPassedStrict(t, last, interval) == t - last > interval
IntervalPassed(t, last, interval) == t - last >= interval

ShouldFlushWhenFull(buf, t, last, interval) ==
  Len(buf) >= config.batchSize /\ IntervalPassed(t, last, interval)
ShouldFlush(buf, t, last, interval) ==
  Len(buf) > 0 /\ IntervalPassed(t, last, interval)

\* the catch block of handleData
OnConversionErrorAlsoConverted(s) ==
  [s EXCEPT !.conversionErrors = @ + 1, !.packetsConverted = @ + 1]
OnConversionError(s) == [s EXCEPT !.conversionErrors = @ + 1]

\* writeToFile lines 216-217: the file name is the millisecond timestamp
\* with ':' and '.' replaced, one name per millisecond
NoFile == -1
FileName(t) == t

\* flush lines 165-174: the sink call that carries the detached batch
SinkCall(buf, trigger) ==
  [batch |-> buf,
   trigger |-> trigger,
   file |-> IF config.writeToFile THEN FileName(now) ELSE NoFile,
   status |-> "inflight"]

\* flush lines 159-163 on a buffer holding buf: return at once when it is
\* empty, else detach it, stamp lastFlushTime and start the sink call
FlushKeepsBuffer(buf, bufAt, trigger) ==
  IF Len(buf) = 0
    THEN /\ buffer' = buf
         /\ bufferedAt' = bufAt
         /\ UNCHANGED <<lastFlushTime, flushes>>
    ELSE /\ buffer' = buf
         /\ bufferedAt' = bufAt
         /\ lastFlushTime' = now
         /\ flushes' = Append(flushes, SinkCall(buf, trigger))
FlushIntoInFlight(buf, bufAt, trigger) ==
  IF Len(buf) = 0
    THEN /\ buffer' = buf
         /\ bufferedAt' = bufAt
         /\ UNCHANGED <<lastFlushTime, flushes>>
    ELSE /\ buffer' = <<>>
         /\ bufferedAt' = <<>>
         /\ lastFlushTime' = now
         /\ flushes' =
              IF \E i \in 1..Len(flushes) : flushes[i].status = "inflight"
                THEN LET i == CHOOSE j \in 1..Len(flushes) :
                                 flushes[j].status = "inflight"
                     IN [flushes EXCEPT ![i].batch = @ \o buf]
                ELSE Append(flushes, SinkCall(buf, trigger))
Flush(buf, bufAt, trigger) ==
  IF Len(buf) = 0
    THEN /\ buffer' = buf
         /\ bufferedAt' = bufAt
         /\ UNCHANGED <<lastFlushTime, flushes>>
    ELSE /\ buffer' = <<>>
         /\ bufferedAt' = <<>>
         /\ lastFlushTime' = now
         /\ flushes' = Append(flushes, SinkCall(buf, trigger))

InFlight == {i \in 1..Len(flushes) : flushes[i].status = "inflight"}

\* flush lines 176-183: the continuation of flush after the sink call,
\* batchesSent++ when it resolved, sendErrors++ in the catch
CountSettledBoth(s, ok) ==
  IF ok THEN [s EXCEPT !.batchesSent = @ + 1]
        ELSE [s EXCEPT !.sendErrors = @ + 1, !.batchesSent = @ + 1]
CountSettledRollback(s, ok) ==
  IF ok THEN [s EXCEPT !.batchesSent = @ + 1]
        ELSE [s EXCEPT !.sendErrors = @ + 1,
                       !.packetsConverted = IF @ > 0 THEN @ - 1 ELSE 0]
CountSettledSilentFailure(s, ok) ==
  IF ok THEN [s EXCEPT !.batchesSent = @ + 1] ELSE s
CountSettled(s, ok) ==
  IF ok THEN [s EXCEPT !.batchesSent = @ + 1]
        ELSE [s EXCEPT !.sendErrors = @ + 1]

\* getStats: a fresh object with the five counters, the buffer length,
\* the uptime (the process starts at clock 0) and the current time
GetStats(s, buf, t) ==
  [packetsReceived |-> s.packetsReceived,
   packetsConverted |-> s.packetsConverted,
   batchesSent |-> s.batchesSent,
   conversionErrors |-> s.conversionErrors,
   sendErrors |-> s.sendErrors,
   bufferSize |-> Len(buf),
   uptime |-> t,
   timestamp |-> t]

\* shutdown lines 257-282: stop both listeners, print getStats(), exit;
\* the buffer is what the flush of this turn left (nothing is pushed since)
FinishShutdown(s) ==
  /\ tcpServer' = FALSE
  /\ udpServer' = FALSE
  /\ finalStats' = <<GetStats(s, buffer, now)>>
  /\ exited' = TRUE

\* ------------------------------------------------------------- actions
\* initialize + startServer; asMain: the caller is the main-module block,
\* whose catch calls process.exit(1)
Initialize(udpOk, tcpOk, asMain) ==
  /\ ~exited /\ ~handlers /\ ~udpServer /\ ~tcpServer
  /\ shutdowns = <<>>
  /\ finalStats = <<>>
  /\ IF udpOk /\ tcpOk
       THEN /\ udpServer' = TRUE
            /\ tcpServer' = TRUE
            /\ flushIntervalId' = TRUE
            /\ nextFire' = now + config.flushInterval
            /\ handlers' = TRUE
            /\ exited' = FALSE
       ELSE /\ udpServer' = udpOk
            /\ tcpServer' = FALSE
            /\ UNCHANGED <<flushIntervalId, nextFire, handlers>>
            /\ exited' = asMain
  /\ UNCHANGED <<conv, config, buffer, lastFlushTime, stats, now, flushes,
                 shutdowns, bufferedAt, finalStats>>

HandleData(transport, kind) ==
  /\ ~exited
  /\ IF transport = "udp" THEN udpServer ELSE tcpServer
  /\ stats.packetsReceived < MaxPackets
  /\ LET n == stats.packetsReceived + 1
         received == [stats EXCEPT !.packetsReceived = n]
         res == ConvertPacket(kind, n)
     IN IF res.threw
          THEN /\ stats' = OnConversionError(received)
               /\ UNCHANGED <<buffer, bufferedAt, lastFlushTime, flushes>>
          ELSE IF res.line = EmptyLine
            THEN /\ stats' = received
                 /\ UNCHANGED <<buffer, bufferedAt, lastFlushTime, flushes>>
            ELSE LET pushed == Append(buffer, res.line)
                     pushedAt == Append(bufferedAt, now)
                 IN /\ stats' = [received EXCEPT !.packetsConverted = @ + 1]
                    /\ IF SizeReached(Len(pushed), config.batchSize)
                         THEN Flush(pushed, pushedAt, "size")
                         ELSE /\ buffer' = pushed
                              /\ bufferedAt' = pushedAt
                              /\ UNCHANGED <<lastFlushTime, flushes>>
  /\ UNCHANGED <<conv, config, udpServer, tcpServer, flushIntervalId, nextFire,
                 handlers, now, shutdowns, finalStats, exited>>

\* the setInterval callback, run when the timer is due
ConditionalFlush ==
  /\ ~exited
  /\ flushIntervalId
  /\ now = nextFire
  /\ nextFire' = nextFire + config.flushInterval
  /\ IF ShouldFlush(buffer, now, lastFlushTime, config.flushInterval)
       THEN Flush(buffer, bufferedAt, "timer")
       ELSE UNCHANGED <<buffer, bufferedAt, lastFlushTime, flushes>>
  /\ UNCHANGED <<conv, config, stats, udpServer, tcpServer, flushIntervalId,
                 handlers, now, shutdowns, finalStats, exited>>

\* shutdown up to `await this.flush()`; when flush returns at once (empty
\* buffer) the rest of shutdown runs before any other callback
ShutdownKeepsTimer(sig) ==
  /\ ~exited
  /\ handlers
  /\ Len(shutdowns) < MaxSignals
  /\ flushIntervalId' = flushIntervalId
  /\ Flush(buffer, bufferedAt, "shutdown")
  /\ IF Len(buffer) = 0
       THEN /\ FinishShutdown(stats)
            /\ UNCHANGED shutdowns
       ELSE /\ shutdowns' = Append(shutdowns,
                 [signal |-> sig, awaiting |-> Len(flushes) + 1])
            /\ UNCHANGED <<udpServer, tcpServer, finalStats, exited>>
  /\ UNCHANGED <<conv, config, stats, nextFire, handlers, now>>
Shutdown(sig) ==
  /\ ~exited
  /\ handlers
  /\ Len(shutdowns) < MaxSignals
  /\ flushIntervalId' = FALSE
  /\ Flush(buffer, bufferedAt, "shutdown")
  /\ IF Len(buffer) = 0
       THEN /\ FinishShutdown(stats)
            /\ UNCHANGED shutdowns
       ELSE /\ shutdowns' = Append(shutdowns,
                 [signal |-> sig, awaiting |-> Len(flushes) + 1])
            /\ UNCHANGED <<udpServer, tcpServer, finalStats, exited>>
  /\ UNCHANGED <<conv, config, stats, nextFire, handlers, now>>

\* the sink call of flush i settles; flush counts it, and a shutdown that
\* awaits this flush runs on to process.exit
SinkSettles(i, ok) ==
  /\ ~exited
  /\ i \in InFlight
  /\ flushes' = [flushes EXCEPT ![i].status = IF ok THEN "sent" ELSE "failed"]
  /\ stats' = CountSettled(stats, ok)
  /\ IF \E k \in 1..Len(shutdowns) : shutdowns[k].awaiting = i
       THEN FinishShutdown(stats')
       ELSE UNCHANGED <<udpServer, tcpServer, finalStats, exited>>
  /\ UNCHANGED <<conv, config, buffer, bufferedAt, lastFlushTime, flushIntervalId,
                 nextFire, handlers, now, shutdowns>>

\* the clock advances one millisecond; a due timer callback runs first
AdvanceTime ==
  /\ ~exited
  /\ now < MaxTime
  /\ ~(flushIntervalId /\ nextFire = now)
  /\ now' = now + 1
  /\ UNCHANGED <<conv, config, buffer, bufferedAt, lastFlushTime, stats, udpServer,
                 tcpServer, flushIntervalId, nextFire, handlers, flushes,
                 shutdowns, finalStats, exited>>

Next ==
  \/ \E udpOk \in BOOLEAN, tcpOk \in BOOLEAN, asMain \in BOOLEAN :
       Initialize(udpOk, tcpOk, asMain)
  \/ \E transport \in Transports, kind \in PacketKinds :
       HandleData(transport, kind)
  \/ ConditionalFlush
  \/ \E sig \in Signals : Shutdown(sig)
  \/ \E i \in 1..Len(flushes), ok \in BOOLEAN : SinkSettles(i, ok)
  \/ AdvanceTime

Spec == Init /\ [][Next]_vars

\* ---------------------------------------------- converter: specification
serverVars == <<config, buffer, lastFlushTime, stats, udpServer, tcpServer,
                flushIntervalId, nextFire, handlers, now, flushes, shutdowns,
                bufferedAt, finalStats, exited>>

\* convertPacket after a successful decapsulate; the clock may tick (d)
\* between its read for hepData.create_date and the one in extractFields
ConvertPacketStep(header, rawInput, sip, d) ==
  /\ conv.step = "idle"
  /\ conv.clock + d <= ClockStart + MaxClockReads
  /\ LET hepData == HepData(header, rawInput.raw, rawInput.isString, conv.clock)
     IN conv' = [conv EXCEPT !.step = "converted",
                             !.clock = conv.clock + d,
                             !.hepData = hepData,
                             !.sip = sip,
                             !.out = CreateLineProtocol(hepData, sip, conv.clock + d)]
  /\ UNCHANGED serverVars

\* the clock moves on after the conversion
ClockTick ==
  /\ conv.step = "converted"
  /\ conv.clock < ClockStart + MaxClockReads
  /\ conv' = [conv EXCEPT !.clock = @ + 1]
  /\ UNCHANGED serverVars

\* createLineProtocol called once more on the same hepData
CreateLineProtocolAgain ==
  /\ conv.step = "converted"
  /\ conv' = [conv EXCEPT !.step = "reencoded",
                          !.again = CreateLineProtocol(conv.hepData, conv.sip, conv.clock)]
  /\ UNCHANGED serverVars

\* the user part of a From or To value
ExtractUserStep(uri) ==
  /\ conv.step = "idle"
  /\ conv' = [conv EXCEPT !.step = "user", !.uri = uri, !.user = UserField(uri)]
  /\ UNCHANGED serverVars

\* the header loop of the README's extractFields on one parsed message,
\* in a converter that holds the given header list
ExtractSipHeadersStep(sipHeaders, headers) ==
  /\ conv.step = "idle"
  /\ conv' = [conv EXCEPT !.step = "headers",
                          !.sipHeaders = sipHeaders,
                          !.message = headers,
                          !.headerFields =
                             ConfiguredHeaderFields(<<>>, sipHeaders, headers, 1)]
  /\ UNCHANGED serverVars

\* the field string of createLineProtocol for one field set
SerializeFieldsStep(keys, values) ==
  /\ conv.step = "idle"
  /\ conv' = [conv EXCEPT !.step = "serialized",
                          !.fieldSet = FieldSet(keys, values),
                          !.fieldString = JoinFields(FieldSet(keys, values), 1)]
  /\ UNCHANGED serverVars

\* a converter call starts from the idle converter; the test stands
\* before the choice of the inputs so that they are chosen only there
ConvNext ==
  \/ /\ conv.step = "idle"
     /\ \E header \in Headers, rawInput \in RawInputs, sip \in SipResults,
           d \in 0..1 : ConvertPacketStep(header, rawInput, sip, d)
  \/ ClockTick
  \/ CreateLineProtocolAgain
  \/ /\ conv.step = "idle"
     /\ \E uri \in Uris : ExtractUserStep(uri)
  \/ /\ conv.step = "idle"
     /\ \E sipHeaders \in SipHeaderLists, headers \in SipMessages :
          ExtractSipHeadersStep(sipHeaders, headers)
  \/ /\ conv.step = "idle"
     /\ \E n \in 1..MaxFields :
          \E keys \in KeyOrders(n), values \in [1..n -> FieldValues] :
            SerializeFieldsStep(keys, values)

ConvInit == Init /\ config.batchSize = 1 /\ ~config.writeToFile

ConvSpec == ConvInit /\ [][ConvNext]_vars

\* The event loop runs a due timer callback and the clock keeps moving;
\* nothing obliges the sink to answer, a sender to send or a signal to come.
LiveSpec ==
  Init /\ [][Next]_vars /\ WF_vars(ConditionalFlush) /\ WF_vars(AdvanceTime)

\* The same event loop for one configuration in which both triggers
\* occur: the sink is InfluxDB and a batch is one line short of the
\* largest batch size.
TimerInit == Init /\ ~config.writeToFile /\ config.batchSize = MaxBatchSize - 1
TimerSpec ==
  TimerInit /\ [][Next]_vars /\ WF_vars(ConditionalFlush) /\ WF_vars(AdvanceTime)

\* ------------------------------------------------------------ properties
LastFlush(fs) == fs[Len(fs)]
ShutdownFlushes == {i \in 1..Len(flushes) : flushes[i].trigger = "shutdown"}
ShutdownBegun == Len(shutdowns) > 0

\* C1: size trigger. A converted packet that brings the buffer to fewer
\* than batchSize lines starts no flush and is appended; the one that
\* brings it to batchSize starts exactly one flush whose batch is the
\* buffered lines followed by the new one, batchSize lines in arrival
\* order, and leaves the buffer empty.
C1_SizeTrigger ==
  [][(\E t \in Transports : HandleData(t, "hep")) =>
       LET line == stats.packetsReceived + 1
       IN IF Len(buffer) + 1 = config.batchSize
            THEN /\ Len(flushes') = Len(flushes) + 1
                 /\ LastFlush(flushes').batch = Append(buffer, line)
                 /\ Len(LastFlush(flushes').batch) = config.batchSize
                 /\ LastFlush(flushes').status = "inflight"
                 /\ buffer' = <<>>
            ELSE /\ Len(buffer) + 1 < config.batchSize
                 /\ flushes' = flushes
                 /\ buffer' = Append(buffer, line)]_vars

C1_Witness ==
  /\ config.batchSize >= 2
  /\ buffer = <<>>
  /\ \E i \in 1..Len(flushes) :
       /\ flushes[i].trigger = "size"
       /\ Len(flushes[i].batch) = config.batchSize

\* C2: single flusher. At most one sink call is in flight at any time.
C2_SingleFlusher == Cardinality(InFlight) <= 1

\* C3: once shutdown has begun, no step appends a line to the buffer.
C3_NoAppendAfterShutdown ==
  [][ShutdownBegun => Len(buffer') <= Len(buffer)]_vars

\* C4: when the process has exited after a signal that found the buffer
\* non-empty, exactly one flush was made by shutdown and its sink call
\* had completed before the exit.
C4_OneFinalFlush ==
  (exited /\ ShutdownBegun) =>
    /\ Cardinality(ShutdownFlushes) = 1
    /\ \A i \in ShutdownFlushes : flushes[i].status # "inflight"

\* C5: the buffer never holds more than maxBufferSize lines.
C5_BufferCap == Len(buffer) <= config.maxBufferSize

\* C6: the process never exits while a sink call is in flight.
C6_NoExitWhileInFlight == exited => InFlight = {}

\* C7: after a termination signal the process eventually exits, also
\* when the sink never answers.
C7_EventuallyExits == ShutdownBegun ~> exited

\* C8: timer trigger. A tick that finds the buffer non-empty and at least
\* flushInterval elapsed since lastFlushTime starts exactly one flush that
\* carries the whole buffer; any other tick starts none and leaves buffer,
\* lastFlushTime and the counters as they were.
C8_TimerTrigger ==
  [][ConditionalFlush =>
       IF Len(buffer) > 0 /\ now - lastFlushTime >= config.flushInterval
         THEN /\ Len(flushes') = Len(flushes) + 1
              /\ LastFlush(flushes').batch = buffer
              /\ LastFlush(flushes').status = "inflight"
              /\ buffer' = <<>>
              /\ lastFlushTime' = now
              /\ stats' = stats
         ELSE /\ flushes' = flushes
              /\ buffer' = buffer
              /\ lastFlushTime' = lastFlushTime
              /\ stats' = stats]_vars

C8_Witness ==
  \E i \in 1..Len(flushes) :
    /\ flushes[i].trigger = "timer"
    /\ flushes[i].batch # <<>>
    /\ lastFlushTime > 0

\* C9: while the timer is armed, no line has been in the buffer for more
\* than flushInterval ms.
C9_MaxAge ==
  flushIntervalId =>
    \A k \in 1..Len(bufferedAt) : now - bufferedAt[k] <= config.flushInterval

\* C10: a packet whose conversion throws adds one to conversionErrors and
\* one to packetsReceived, leaves packetsConverted, the buffer and the
\* flushes as they were, and leaves both listeners and the process as
\* they were, so later packets are still handled.
C10_ConversionError ==
  [][(\E t \in Transports : HandleData(t, "garbage")) =>
       /\ stats'.conversionErrors = stats.conversionErrors + 1
       /\ stats'.packetsConverted = stats.packetsConverted
       /\ stats'.batchesSent = stats.batchesSent
       /\ stats'.sendErrors = stats.sendErrors
       /\ buffer' = buffer
       /\ flushes' = flushes
       /\ lastFlushTime' = lastFlushTime
       /\ udpServer' = udpServer
       /\ tcpServer' = tcpServer
       /\ exited' = exited]_vars

C10_Witness ==
  /\ stats.conversionErrors >= 1
  /\ stats.packetsConverted >= 1
  /\ Len(buffer) >= 1
  /\ ~exited

\* C11: every received packet is counted once, as converted or as a
\* conversion error: packetsReceived = packetsConverted + conversionErrors.
C11_CountedOnce ==
  stats.packetsReceived = stats.packetsConverted + stats.conversionErrors

\* C12: when the sink call of a flush fails, sendErrors grows by one,
\* batchesSent and the other counters stay, the buffer is left alone and
\* no new sink call is made; and in every state the lines of a failed
\* batch are neither in the buffer nor in the batch of another flush.
LinesOf(q) == {q[k] : k \in 1..Len(q)}
FailedFlushes == {i \in 1..Len(flushes) : flushes[i].status = "failed"}
C12_LostNotRequeued ==
  /\ [](\A i \in FailedFlushes :
         /\ LinesOf(flushes[i].batch) \cap LinesOf(buffer) = {}
         /\ \A j \in 1..Len(flushes) :
              j # i => LinesOf(flushes[i].batch) \cap LinesOf(flushes[j].batch) = {})
  /\ [][(\E i \in 1..Len(flushes) : SinkSettles(i, FALSE)) =>
         /\ stats'.sendErrors = stats.sendErrors + 1
         /\ stats'.batchesSent = stats.batchesSent
         /\ stats'.packetsReceived = stats.packetsReceived
         /\ stats'.packetsConverted = stats.packetsConverted
         /\ stats'.conversionErrors = stats.conversionErrors
         /\ buffer' = buffer
         /\ Len(flushes') = Len(flushes)
         /\ \A j \in 1..Len(flushes) : flushes'[j].batch = flushes[j].batch]_vars

C12_Witness ==
  /\ stats.sendErrors >= 1
  /\ FailedFlushes # {}
  /\ Len(buffer) >= 1
  /\ \E j \in 1..Len(flushes) : flushes[j].status = "sent"

\* C13: when a bind failed in startServer (the signal handlers are then
\* never registered), no packet is ever handed to handleData, nothing is
\* buffered and the flush timer is not armed.
C13_NoIngestAfterBindFailure ==
  ~handlers =>
    /\ stats.packetsReceived = 0
    /\ buffer = <<>>
    /\ ~flushIntervalId

\* C14: no step decreases any of the five counters, and the snapshot that
\* getStats returns carries the counters and the buffer length of the
\* moment while the step that takes it leaves the buffer as it was.
CounterNames ==
  {"packetsReceived", "packetsConverted", "batchesSent", "conversionErrors",
   "sendErrors"}
C14_CountersMonotone ==
  [][/\ \A c \in CounterNames : stats'[c] >= stats[c]
     /\ finalStats' # finalStats =>
          /\ \A c \in CounterNames : finalStats'[1][c] = stats'[c]
          /\ finalStats'[1].bufferSize = Len(buffer')
          /\ buffer' = buffer]_vars

C14_Witness ==
  /\ finalStats # <<>>
  /\ finalStats[1].sendErrors >= 1
  /\ finalStats[1].batchesSent >= 1
  /\ finalStats[1].conversionErrors >= 1

\* --------------------------------------------- properties of the converter
Converted == conv.step = "converted" /\ conv.out.line # <<>>
FieldKeys(fields) == {fields[k].key : k \in 1..Len(fields)}
FieldNamed(fields, key) ==
  fields[CHOOSE k \in 1..Len(fields) : fields[k].key = key]
Contains(text, part) ==
  \E i \in 1..(Len(text) - Len(part) + 1) :
    SubSeq(text, i, i + Len(part) - 1) = part

\* C15: for a header with seconds S >= 0 and microseconds 0 <= U < 10^6,
\* the create_date field of the line is the integer
\* S*1000 + floor((100000+U)/1000 - 100).
ClaimedCreateDate(S, U) == S * 1000 + ((100000 + U) \div 1000) - 100
C15_CreateDateFormula ==
  Converted =>
    FieldNamed(conv.out.fields, "create_date").value =
      Num(ClaimedCreateDate(conv.hepData.protocol_header.timeSeconds,
                            conv.hepData.protocol_header.timeUseconds))

\* C16: createLineProtocol called again on the same hepData, at any later
\* moment, returns the same line.
C16_Deterministic ==
  conv.step = "reencoded" => conv.again.line = conv.out.line

\* C17: a non-empty line has a non-empty tag set, in which source=hep is
\* present exactly when no tag source of the header is set (and is then
\* the only tag), and a field set that contains create_date; the rendered
\* line carries both.
NoTagSourceSet(header) ==
  \A k \in 1..Len(TagSources) :
    LET v == header.tagSources[TagSources[k].field]
    IN v.kind = "none" \/ v = Num(0) \/ v = Str(<<>>)
C17_TagsAndCreateDate ==
  Converted =>
    LET tags == conv.out.tags
        hasSource == \E k \in 1..Len(tags) : tags[k].key = "source"
    IN /\ Len(tags) >= 1
       /\ hasSource <=> NoTagSourceSet(conv.hepData.protocol_header)
       /\ hasSource => tags = <<[key |-> "source", value |-> Str(<<"h", "e", "p">>)]>>
       /\ "create_date" \in FieldKeys(conv.out.fields)
       /\ Contains(conv.out.line, <<COMMA, tags[1].key, EQ>>)
       /\ Contains(conv.out.line, <<SP, "create_date", EQ>>)

C17_Witness ==
  /\ Converted
  /\ conv.hepData.protocol_header.tagSources = ZeroTagSources
  /\ Contains(conv.out.line, <<COMMA, "source", EQ, "h", "e", "p", SP>>)

\* C18: for a payload type other than 1 the measurement is hep_<type> and
\* every field is one of create_date, time_sec, time_usec, payload,
\* payload_size, whatever the payload and whatever a SIP parser would
\* make of it.
BaseFieldKeys ==
  {"create_date", "time_sec", "time_usec", "payload", "payload_size"}
C18_NonSipBaseFields ==
  (Converted /\ conv.hepData.type # 1) =>
    /\ SubSeq(conv.out.line, 1, 3)
         = <<"hep_", DigitChars[conv.hepData.type + 1], COMMA>>
    /\ FieldKeys(conv.out.fields) \subseteq BaseFieldKeys

C18_Witness ==
  /\ Converted
  /\ conv.hepData.type = 5
  /\ conv.sip = SipRequest
  /\ conv.hepData.raw # <<>>
  /\ "payload" \in FieldKeys(conv.out.fields)

\* C19: the user field derived from a From or To value is the text
\* between 'sip:' and '@' of the value without angle brackets, and the
\* whole cleaned value only when the value has no '@'.
ClaimedUser(value) ==
  LET clean == RemoveChars(value, {"<", ">"})
      at == FirstIndexOf(clean, "@")
  IN IF at = 0 THEN clean
     ELSE LET start == CHOOSE i \in 1..Len(clean) :
                         /\ SubSeq(clean, i, i + 3) = SipScheme
                         /\ \A j \in 1..(i - 1) : SubSeq(clean, j, j + 3) # SipScheme
          IN SubSeq(clean, start + 4, at - 1)
C19_UserPart ==
  conv.step = "user" => conv.user = ClaimedUser(conv.uri)

\* C20: for a payload with an embedded CRLF, the payload field of the
\* encoded line shows the CRLF as exactly backslash r backslash n between
\* the surrounding text.
CrlfPayload == <<"a", CR, LF, "b">>
C20_CrlfLiteral ==
  (Converted /\ conv.hepData.raw = CrlfPayload) =>
    Contains(conv.out.line,
             <<"payload", EQ, DQ, "a", BS, "r", BS, "n", "b", DQ>>)

\* C21: a header of the message whose name, compared without regard to
\* case, is in the converter's header list yields its sip_<name> field
\* with the header's value, whether the list is the constructor's or one
\* stored by setSipHeaders, and however the message writes the name.
LowerNames(names) == {ToLowerCase(names[k]) : k \in 1..Len(names)}
C21_CaseInsensitiveHeaders ==
  conv.step = "headers" =>
    \A k \in 1..Len(conv.message) :
      ToLowerCase(conv.message[k].name) \in LowerNames(conv.sipHeaders) =>
        \E f \in 1..Len(conv.headerFields) :
          conv.headerFields[f] =
            [key |-> SipKey(conv.message[k].name),
             value |-> Str(Trim(conv.message[k].raw))]

\* C22: the batches detached so far, in flush order, followed by the
\* buffer are the converted lines in arrival order, each exactly once:
\* no line is in two places, none is missing, and packetsConverted is the
\* buffer length plus the number of detached lines.
RECURSIVE BatchesFrom(_, _)
BatchesFrom(fs, k) ==
  IF k > Len(fs) THEN <<>> ELSE fs[k].batch \o BatchesFrom(fs, k + 1)
Detached == BatchesFrom(flushes, 1)
C22_EachLineOnce ==
  LET all == Detached \o buffer
  IN /\ Len(all) = stats.packetsConverted
     /\ stats.packetsConverted = Len(buffer) + Len(Detached)
     /\ \A k, l \in 1..Len(all) : k < l => all[k] < all[l]

C22_Witness ==
  /\ Len(flushes) >= 2
  /\ Len(buffer) >= 1
  /\ stats.packetsConverted = MaxPackets

\* C23: the batch of a flush never changes after the flush detached it;
\* a line that arrives while a sink call is in flight, or after one
\* failed, goes to the buffer (or to the new batch of the flush it
\* triggers); and handleData can run whenever a listener is open,
\* whatever the state of the sink calls.
C23_BatchFixedWhileInFlight ==
  /\ [][\A i \in 1..Len(flushes) :
          Len(flushes') >= i /\ flushes'[i].batch = flushes[i].batch]_vars
  /\ [][((\E t \in Transports : HandleData(t, "hep"))
           /\ (InFlight # {} \/ FailedFlushes # {})) =>
          LET pushed == Append(buffer, stats.packetsReceived + 1)
          IN \/ buffer' = pushed /\ flushes' = flushes
             \/ /\ buffer' = <<>>
                /\ flushes' = Append(flushes, LastFlush(flushes'))
                /\ LastFlush(flushes').batch = pushed]_vars
  /\ []((~exited /\ udpServer /\ stats.packetsReceived < MaxPackets) =>
          ENABLED HandleData("udp", "hep"))

C23_Witness ==
  /\ FailedFlushes # {}
  /\ \E i \in InFlight :
       /\ buffer # <<>>
       /\ \A k \in 1..Len(flushes[i].batch) : flushes[i].batch[k] < buffer[1]

\* C24: while the timer is armed and the process runs, every line in
\* the buffer is eventually detached by a flush, whatever arrivals, size
\* flushes and ticks come in between. The clock of the model stops at
\* MaxTime, so the property is stated for the lines that a tick can still
\* serve: the next tick, if it comes flushInterval after the last flush,
\* or the one after it.
TimerRuns == flushIntervalId /\ ~exited
TickWithinHorizon ==
  /\ nextFire <= MaxTime
  /\ \/ nextFire - lastFlushTime >= config.flushInterval
     \/ nextFire + config.flushInterval <= MaxTime
C24_EventuallyDetached ==
  \A n \in 1..MaxPackets :
    (n \in LinesOf(buffer) /\ TimerRuns /\ TickWithinHorizon)
      ~> (n \in LinesOf(Detached) \/ ~TimerRuns)

C24_Witness ==
  /\ TimerRuns
  /\ \E i, j \in 1..Len(flushes) :
       /\ i < j
       /\ flushes[i].trigger = "size"
       /\ flushes[j].trigger = "timer"
       /\ Len(flushes[j].batch) < config.batchSize

\* C25: when the process has exited through shutdown, the buffer is
\* empty and every converted line is in a batch that was handed to the
\* sink.
C25_ExitWithEmptyBuffer ==
  (exited /\ finalStats # <<>>) =>
    /\ buffer = <<>>
    /\ Len(Detached) = stats.packetsConverted

\* C26: once a shutdown has begun, the timer callback never runs again
\* and no flush is started by the timer, although the clock goes on past
\* the time of the next tick.
C26_NoTimerFlushAfterShutdown ==
  [][ShutdownBegun =>
       /\ ~ConditionalFlush
       /\ ~flushIntervalId'
       /\ \A i \in 1..Len(flushes') :
            i > Len(flushes) => flushes'[i].trigger # "timer"]_vars

C26_Witness ==
  /\ ShutdownBegun
  /\ ~exited
  /\ now > nextFire
  /\ Len(buffer) > 0
  /\ now - lastFlushTime >= config.flushInterval

\* C27: the nanosecond timestamp that ends a line is the line's own
\* create_date field times 1,000,000, also for a header whose timeSeconds
\* is 0, for which the time comes from the clock.
C27_TimestampMatchesCreateDate ==
  Converted =>
    conv.out.timestamp =
      TimesMillion(FieldNamed(conv.out.fields, "create_date").value.num)

\* C28: no produced line contains a raw CR or LF, whatever the header
\* (tag values included) and the payload.
C28_NoRawNewline ==
  Converted =>
    \A k \in 1..Len(conv.out.line) : conv.out.line[k] \notin {CR, LF}

\* C29: in file mode no two flushes write to the same file name.
C29_OneFilePerFlush ==
  config.writeToFile =>
    \A i, j \in 1..Len(flushes) : i # j => flushes[i].file # flushes[j].file

\* C30: batchesSent counts the flushes whose sink call succeeded and
\* sendErrors those whose sink call failed, so their sum is the number
\* of completed sink calls and each completed flush is counted once; a
\* sink call always carries a non-empty batch; and a flush on an empty
\* buffer (the one shutdown makes) starts no sink call and leaves both
\* counters and lastFlushTime as they were.
SentFlushes == {i \in 1..Len(flushes) : flushes[i].status = "sent"}
C30_FlushAccounting ==
  /\ [](/\ stats.batchesSent = Cardinality(SentFlushes)
        /\ stats.sendErrors = Cardinality(FailedFlushes)
        /\ stats.batchesSent + stats.sendErrors
             = Len(flushes) - Cardinality(InFlight)
        /\ \A i \in 1..Len(flushes) : flushes[i].batch # <<>>)
  /\ [][((\E sig \in Signals : Shutdown(sig)) /\ buffer = <<>>) =>
          /\ flushes' = flushes
          /\ lastFlushTime' = lastFlushTime
          /\ stats'.batchesSent = stats.batchesSent
          /\ stats'.sendErrors = stats.sendErrors]_vars

C30_Witness ==
  /\ exited
  /\ finalStats # <<>>
  /\ shutdowns = <<>>
  /\ SentFlushes # {}
  /\ FailedFlushes # {}
  /\ lastFlushTime < now

\* C31: in the field string of a field set of strings, integers,
\* non-integer numbers, booleans and null or absent values, a string is
\* written in double quotes, an integer with the suffix i, a non-integer
\* number as it is, a boolean as true or false, a null or absent value
\* not at all, and the written fields follow each other in insertion
\* order with one comma between two of them.
ClaimedValue(v) ==
  CASE v.kind = "str" -> <<DQ>> \o EscapeFieldValue(v.chars) \o <<DQ>>
    [] v.kind = "num" -> NatChars(v.num) \o <<"i">>
    [] v.kind = "float" -> v.chars
    [] v.kind = "bool" ->
         IF v = Bool(TRUE) THEN <<"t", "r", "u", "e">>
                           ELSE <<"f", "a", "l", "s", "e">>
RECURSIVE ClaimedFieldString(_, _)
ClaimedFieldString(fields, first) ==
  IF fields = <<>> THEN <<>>
  ELSE IF Head(fields).value.kind = "none"
    THEN ClaimedFieldString(Tail(fields), first)
    ELSE (IF first THEN <<>> ELSE <<COMMA>>)
         \o <<Head(fields).key, EQ>> \o ClaimedValue(Head(fields).value)
         \o ClaimedFieldString(Tail(fields), FALSE)
C31_FieldSerialization ==
  conv.step = "serialized" =>
    conv.fieldString = ClaimedFieldString(conv.fieldSet, TRUE)

C31_Witness ==
  /\ conv.step = "serialized"
  /\ Len(conv.fieldSet) = MaxFields
  /\ conv.fieldSet[1].value.kind = "float"
  /\ conv.fieldSet[2].value.kind = "none"
  /\ conv.fieldSet[MaxFields].value.kind = "str"
  /\ Len(SelectSeq(conv.fieldString, LAMBDA c : c = COMMA)) = 1

====
